---- MODULE Spec2Model ----
(***************************************************************************)
(* Interruptible TTS playback queue of the personal assistant              *)
(* (src/personal_assistant/interruptible_tts_wrapper.py).                  *)
(*                                                                         *)
(* One worker thread (_worker_loop) consumes audio_queue, a FIFO           *)
(* queue.Queue; caller threads run speak, interrupt, clear_queue and       *)
(* shutdown.  No lock protects is_speaking, current_task or should_stop,   *)
(* so every read and every write of a shared field is a step of its own    *)
(* and the threads interleave between any two of them.                     *)
(***************************************************************************)
EXTENDS Integers, Sequences, FiniteSets, TLC

\* ------------------------------------------------------------- bounds
MaxCalls == 3        \* calls of public methods in one behaviour
MaxTasks == 2        \* speak() calls among them
MaxSlices == 2       \* slices of chunk_size*2 bytes in one task's audio
MaxFinals == 2       \* final transcripts the recorder returns in one behaviour
MaxNow == 12         \* the time that passes in one behaviour, in tenths of a second
MaxEnables == 5      \* enable_auto_interrupt() calls in one behaviour
MaxDepth == 3        \* nested calls the interpreter allows before RecursionError
MaxClients == 2      \* websocket connections made in one behaviour
MaxBroadcasts == 2   \* send_to_clients coroutines run in one behaviour

\* ---------------------------------------------------- program constants
LowPriority == 0     \* AudioTask.priority default
HighPriority == 10   \* the priority of the test's urgent message

ResponsePriority == 1            \* the priority the server speaks a response with
silence_threshold == 8           \* TurnDetector.silence_threshold = 0.8, in tenths
FastBelow == 5                   \* update_pace: response_time < 0.5, in tenths
SlowAbove == 15                  \* update_pace: response_time > 1.5, in tenths
Priorities == {LowPriority, HighPriority}
EmptyText == ""                  \* the text of speak("")
SomeText == "text"               \* any text that is not empty
\* Two threads call the public methods: the one that feeds the assistant
\* (speech, voice activity, queue management) and the one that shuts it down.
Callers == {"client", "main"}
TaskIds == 1 .. MaxTasks
None == 0                        \* Python None: shutdown sentinel, no task

\* InterruptReason
MANUAL == "manual"
VAD_DETECTED == "vad_detected"
WAKE_WORD == "wake_word"
NEW_MESSAGE == "new_message"
SHUTDOWN == "shutdown"
InterruptReason == {MANUAL, VAD_DETECTED, WAKE_WORD, NEW_MESSAGE, SHUTDOWN}

VARIABLES
  is_speaking,    \* self.is_speaking
  should_stop,    \* self.should_stop (threading.Event): TRUE when set
  audio_queue,    \* self.audio_queue (queue.Queue): task ids and None, head first
  current_task,   \* self.current_task: a task id or None
  stream,         \* self.stream: "none" (None), "open", "closed"
  terminated,     \* self.pyaudio.terminate() has been called
  priority,       \* AudioTask.priority of every task created so far
  text,           \* AudioTask.text of every task created so far
  wpc,            \* position of the worker thread in _worker_loop
  task,           \* _worker_loop's local task
  audio_data,     \* _worker_loop's local audio_data: number of slices, 0 = None
  slice_i,        \* _play_audio's loop index, in slices
  completed,      \* _worker_loop's local completed
  outcome,        \* history: how the worker's task ended, "none" while undecided
  cpc,            \* position of every caller thread
  cop,            \* the public method a caller thread is in
  ctask,          \* speak's local task
  creason,        \* interrupt's parameter reason
  cseen,          \* speak: the value read from self.current_task.priority, -1 before
  target,         \* history: the task in flight when the caller decided to interrupt
  cerr,           \* the exception the caller's last call raised, "none" if none
  calls,          \* history: calls started so far
  at_shutdown,    \* history: the speak() calls started before the first shutdown()
  phase,          \* history: where every task is in its lifecycle
  notified,       \* history: the callbacks invoked, by the task they were about
  conversation_history, \* the server's conversation_history: {role, content} entries
  is_assistant_speaking, \* assistant_server_interruptible.py: is_assistant_speaking
  last_transcript, \* EnhancedAssistant.last_transcript
  responding,     \* the turn of the process_response that runs; 0: none runs
  awaiting,       \* the turns whose process_response is suspended in its send
  cleared,        \* history: the turns whose request was dispatched at a clear
  tts_stream,     \* EnhancedAssistant.tts_stream: its playback and the turn played
  now,               \* time.time(), since the TurnDetector was made
  last_speech_time,  \* TurnDetector.last_speech_time
  is_user_speaking,  \* TurnDetector.is_user_speaking
  conversation_pace, \* TurnDetector.conversation_pace
  speech_ended,      \* history: the time of the last on_speech_end
  answer,            \* what the should_respond call just made returned
  latency,           \* history: the response_time of the last update_pace; -1: none
  on_vad_detect_start,    \* recorder.on_vad_detect_start: the function installed
  original_on_vad_start,  \* EnhancedAssistantTTSWrapper._original_on_vad_start
  enables,        \* history: the arguments of the enable_auto_interrupt calls
  vad,            \* history: what the last voice-activity-start event invoked
  connected_clients,  \* the servers' connected_clients set
  connection,     \* every websocket: "none" before it connects, "open", "closed"
  hpc,            \* position of every connection's handle_client coroutine
  bcast,          \* every send_to_clients coroutine: its position and locals
  removals,       \* history: the connected_clients.remove calls that returned
  errors,         \* history: the exceptions raised in the connection handling
  rpc,            \* position of the thread that takes the final transcripts
  full_sentence,  \* that thread's local full_sentence (text)
  response,       \* recorder_thread's local response
  loop_queue,     \* main_loop: the coroutines scheduled on it, first first
  delivered,      \* the messages sent to the connected clients, in order
  finals,         \* history: the final transcripts recorder.text() returned
  generated,      \* history: the generator's invocations and how each ended
  spoken          \* history: the turn whose response each task speaks

vars == <<is_speaking, should_stop, audio_queue, current_task, stream, terminated,
          priority, text, wpc, task, audio_data, slice_i, completed, outcome, cpc, cop, ctask,
          creason, cseen, target, cerr, calls, at_shutdown, phase, notified,
          conversation_history, is_assistant_speaking, last_transcript, responding,
          awaiting, cleared,
          tts_stream, now, last_speech_time, is_user_speaking, conversation_pace,
          speech_ended, answer, latency,
          on_vad_detect_start, original_on_vad_start, enables, vad,
          connected_clients, connection, hpc, bcast, removals, errors, rpc,
          full_sentence, response,
          loop_queue, delivered, finals, generated, spoken>>

shared == <<is_speaking, should_stop, audio_queue, current_task, stream, terminated>>
wvars == <<wpc, task, audio_data, slice_i, completed, outcome>>
cvars == <<cpc, cop, ctask, creason, cseen, target, cerr, calls, priority, text>>
\* The server around the wrapper: what the coordinating threads read and write.
\* What only EnhancedAssistant has.
\* EnhancedAssistant.turn_detector and the clock it reads.
detector == <<now, last_speech_time, is_user_speaking, conversation_pace, speech_ended,
              answer, latency>>
enh == <<last_transcript, responding, awaiting, cleared, tts_stream, detector>>
\* The recorder's voice-activity callback and the wrapper's copy of it.
auto == <<on_vad_detect_start, original_on_vad_start, enables, vad>>
\* The websocket connections and the coroutines that serve them.
sockets == <<connected_clients, connection, hpc, bcast, removals, errors>>
coord == <<conversation_history, is_assistant_speaking, enh, auto, sockets, rpc, full_sentence,
           response,
           loop_queue, delivered, finals, generated, spoken>>

InFlight == {"synthesizing", "playing"}

\* The worker is inside _play_audio's loop with a slice still to write.
InLoop == wpc \in {"play_check", "play_write"} /\ slice_i < audio_data

\* An on_speech_interrupted(reason) invocation, with what the wrapper looked
\* like at that instant: whether the worker had audio left to write and no
\* task was pending, and the task of the speak() that raised it, if any.
Interruption(reason, c) ==
  [reason |-> reason, solo |-> InLoop /\ audio_queue = <<>>, for |-> ctask[c]]

\* No callback has been invoked about a task.
Silent == [started |-> 0, ended |-> 0, interrupted |-> 0, by |-> {}]

\* The websockets that connect and the send_to_clients coroutines.
Websockets == 1 .. MaxClients
Broadcasts == 1 .. MaxBroadcasts
\* A send_to_clients coroutine that has not run, and one that is over.
NotRun == [pc |-> "new", at |-> 0, used |-> 0, todo |-> {}, disconnected |-> {}]
Over == [pc |-> "over", at |-> 0, used |-> 0, todo |-> {}, disconnected |-> {}]

\* No voice-activity-start event since the last enable_auto_interrupt call.
NoEvent == [fired |-> FALSE, original |-> 0, interrupts |-> 0, error |-> FALSE]

\* __init__: nothing speaking, stop flag clear, queue empty, worker started;
\* 239, 242-254: the recorder's callback is saved and on_vad_interrupt installed.
Init ==
  /\ is_speaking = FALSE
  /\ should_stop = FALSE
  /\ audio_queue = <<>>
  /\ current_task = None
  /\ stream = "none"
  /\ terminated = FALSE
  /\ priority = [i \in TaskIds |-> LowPriority]
  /\ text = [i \in TaskIds |-> SomeText]
  /\ wpc = "get"
  /\ task = None
  /\ audio_data = 0
  /\ slice_i = 0
  /\ completed = FALSE
  /\ outcome = "none"
  /\ cpc = [c \in Callers |-> "idle"]
  /\ cop = [c \in Callers |-> "none"]
  /\ ctask = [c \in Callers |-> None]
  /\ creason = [c \in Callers |-> MANUAL]
  /\ cseen = [c \in Callers |-> -1]
  /\ target = [c \in Callers |-> None]
  /\ cerr = [c \in Callers |-> "none"]
  /\ calls = [speak |-> 0, total |-> 0, shutdown |-> 0]
  /\ at_shutdown = [speaks |-> 0]
  /\ phase = [i \in TaskIds |-> "absent"]
  /\ notified = [i \in TaskIds \cup {None} |-> Silent]
  /\ conversation_history = <<>>
  /\ is_assistant_speaking = FALSE
  /\ last_transcript = ""
  /\ responding = 0
  /\ awaiting = {}
  /\ cleared = {}
  /\ tts_stream = [state |-> "idle", turn |-> 0]
  /\ now = 0
  /\ last_speech_time = 0
  /\ is_user_speaking = FALSE
  /\ conversation_pace = "normal"
  /\ speech_ended = 0
  /\ answer = "none"
  /\ latency = -1
  /\ on_vad_detect_start = "on_vad_interrupt"
  /\ original_on_vad_start = "original"
  /\ enables = <<>>
  /\ vad = NoEvent
  /\ connected_clients = {}
  /\ connection = [w \in Websockets |-> "none"]
  /\ hpc = [w \in Websockets |-> "none"]
  /\ bcast = [b \in Broadcasts |-> NotRun]
  /\ removals = [w \in Websockets |-> 0]
  /\ errors = {}
  /\ rpc = "text"
  /\ full_sentence = ""
  /\ response = ""
  /\ loop_queue = <<>>
  /\ delivered = <<>>
  /\ finals = <<>>
  /\ generated = <<>>
  /\ spoken = [i \in TaskIds |-> 0]

hist == <<phase, notified, at_shutdown>>
\* Everything but the TurnDetector.
notdetector ==
  <<shared, wvars, cvars, hist, conversation_history, is_assistant_speaking,
    auto, sockets, last_transcript, responding, awaiting, cleared, tts_stream, rpc, full_sentence, response, loop_queue,
    delivered, finals, generated, spoken>>

\* --------------------------------------------------------- _worker_loop
\* AtGet with the next get() issued while the audio of the task before is
\* still being written.
AtGetWhilePlaying == wpc \in {"get", "play_check"}

\* The worker blocks in audio_queue.get() at the top of its loop and nowhere else.
AtGet == wpc = "get"

WorkerGetUnlessStopped ==
  /\ AtGet
  /\ ~should_stop
  /\ audio_queue # <<>>
  /\ task' = Head(audio_queue)
  /\ audio_queue' = Tail(audio_queue)
  /\ wpc' = IF Head(audio_queue) = None THEN "exit" ELSE "set_current"
  /\ phase' = IF Head(audio_queue) = None THEN phase
              ELSE [phase EXCEPT ![Head(audio_queue)] = "synthesizing"]
  /\ outcome' = "none"
  /\ completed' = FALSE
  /\ UNCHANGED <<is_speaking, should_stop, current_task, stream, terminated,
                 audio_data, slice_i, notified, at_shutdown, cvars, coord>>

\* 197-201: task = self.audio_queue.get(); a None ends the loop.
WorkerGet ==
  /\ AtGet
  /\ audio_queue # <<>>
  /\ task' = Head(audio_queue)
  /\ audio_queue' = Tail(audio_queue)
  /\ wpc' = IF Head(audio_queue) = None THEN "exit" ELSE "set_current"
  /\ phase' = IF Head(audio_queue) = None THEN phase
              ELSE [phase EXCEPT ![Head(audio_queue)] = "synthesizing"]
  /\ outcome' = "none"
  /\ completed' = FALSE
  /\ UNCHANGED <<is_speaking, should_stop, current_task, stream, terminated,
                 audio_data, slice_i, notified, at_shutdown, cvars, coord>>

\* 203: self.current_task = task
WorkerSetCurrent ==
  /\ wpc = "set_current"
  /\ current_task' = task
  /\ wpc' = "set_speaking"
  /\ UNCHANGED <<is_speaking, should_stop, audio_queue, stream, terminated, task,
                 audio_data, slice_i, completed, outcome, cvars, hist, coord>>

\* 204: self.is_speaking = True
WorkerSetSpeaking ==
  /\ wpc = "set_speaking"
  /\ is_speaking' = TRUE
  /\ wpc' = "clear_stop"
  /\ UNCHANGED <<should_stop, audio_queue, current_task, stream, terminated, task,
                 audio_data, slice_i, completed, outcome, cvars, hist, coord>>

\* 205: self.should_stop.clear()
WorkerClearStop ==
  /\ wpc = "clear_stop"
  /\ should_stop' = FALSE
  /\ wpc' = "speech_start"
  /\ UNCHANGED <<is_speaking, audio_queue, current_task, stream, terminated, task,
                 audio_data, slice_i, completed, outcome, cvars, hist, coord>>

\* 210-211: on_speech_start(), before any synthesis.
SpeechStart(on_speech_start) ==
  /\ wpc = "speech_start"
  /\ notified' = [notified EXCEPT ![task].started = @ + 1]
  /\ on_speech_start
  /\ wpc' = "generate"
  /\ UNCHANGED <<shared, task, audio_data, slice_i, completed, outcome, cvars,
                 phase, at_shutdown>>

\* The wrapper on its own: the callback does nothing outside the wrapper.
WorkerSpeechStart == SpeechStart(UNCHANGED coord)

\* 214, 134-163: _generate_audio. The stop flag is read after a chunk
\* (146-148) and a set flag returns None; the engine or the conversion raises
\* and the handler returns None (161-163), as they do on an empty text (no
\* audio to decode); otherwise the PCM data is returned.
WorkerGenerate ==
  /\ wpc = "generate"
  /\ \/ /\ should_stop
        /\ audio_data' = 0
        /\ outcome' = "interrupted"
     \/ /\ ~should_stop
        /\ text[task] # EmptyText
        /\ \E n \in 1 .. MaxSlices : audio_data' = n
        /\ outcome' = outcome
     \/ /\ audio_data' = 0
        /\ outcome' = "failed"
  /\ wpc' = "check"
  /\ UNCHANGED <<shared, task, slice_i, completed, cvars, hist, coord>>

\* 216: if audio_data and not self.should_stop.is_set()
WorkerCheck ==
  /\ wpc = "check"
  /\ IF audio_data # 0 /\ ~should_stop
       THEN /\ wpc' = "play_open"
            /\ phase' = [phase EXCEPT ![task] = "playing"]
            /\ outcome' = outcome
       ELSE /\ wpc' = "reset_speaking"
            /\ phase' = phase
            /\ outcome' = IF outcome = "none" THEN "interrupted" ELSE outcome
  /\ UNCHANGED <<shared, task, audio_data, slice_i, completed, cvars, notified, at_shutdown, coord>>

\* 170-177: _play_audio opens the stream when there is none; PyAudio.open
\* raises once the PyAudio instance is terminated.
WorkerPlayOpen ==
  /\ wpc = "play_open"
  /\ slice_i' = 0
  /\ IF stream = "none"
       THEN IF terminated
              THEN /\ wpc' = "except"
                   /\ stream' = stream
              ELSE /\ wpc' = "play_check"
                   /\ stream' = "open"
       ELSE /\ wpc' = "play_check"
            /\ stream' = stream
  /\ UNCHANGED <<is_speaking, should_stop, audio_queue, current_task, terminated,
                 task, audio_data, completed, outcome, cvars, hist, coord>>

WorkerPlayCheckOnce ==
  /\ wpc = "play_check"
  /\ IF slice_i >= audio_data
       THEN /\ completed' = TRUE
            /\ outcome' = "completed"
            /\ wpc' = "speech_end"
       ELSE IF should_stop /\ slice_i = 0
              THEN /\ completed' = FALSE
                   /\ outcome' = "interrupted"
                   /\ wpc' = "reset_speaking"
              ELSE /\ completed' = completed
                   /\ outcome' = outcome
                   /\ wpc' = "play_write"
  /\ UNCHANGED <<shared, task, audio_data, slice_i, cvars, hist, coord>>

\* 180-182, 187: the loop ends with True after the last slice; before every
\* slice the stop flag is read and a set flag returns False.
WorkerPlayCheck ==
  /\ wpc = "play_check"
  /\ IF slice_i >= audio_data
       THEN /\ completed' = TRUE
            /\ outcome' = "completed"
            /\ wpc' = "speech_end"
       ELSE IF should_stop
              THEN /\ completed' = FALSE
                   /\ outcome' = "interrupted"
                   /\ wpc' = "reset_speaking"
              ELSE /\ completed' = completed
                   /\ outcome' = outcome
                   /\ wpc' = "play_write"
  /\ UNCHANGED <<shared, task, audio_data, slice_i, cvars, hist, coord>>

\* 184-185: self.stream.write(chunk). The write raises on a closed stream and
\* when the device fails.
WorkerPlayWrite ==
  /\ wpc = "play_write"
  /\ \/ /\ stream = "open"
        /\ slice_i' = slice_i + 1
        /\ wpc' = "play_check"
     \/ /\ slice_i' = slice_i
        /\ wpc' = "except"
  /\ UNCHANGED <<shared, task, audio_data, completed, outcome, cvars, hist, coord>>

\* 221-222: if completed and self.on_speech_end: self.on_speech_end()
SpeechEnd(on_speech_end) ==
  /\ wpc = "speech_end"
  /\ notified' = [notified EXCEPT ![task].ended = @ + 1]
  /\ on_speech_end
  /\ wpc' = "reset_speaking"
  /\ UNCHANGED <<shared, task, audio_data, slice_i, completed, outcome, cvars,
                 phase, at_shutdown>>

WorkerSpeechEnd == SpeechEnd(UNCHANGED coord)

\* 224: self.is_speaking = False
WorkerResetSpeaking ==
  /\ wpc = "reset_speaking"
  /\ is_speaking' = FALSE
  /\ wpc' = "reset_current"
  /\ UNCHANGED <<should_stop, audio_queue, current_task, stream, terminated, task,
                 audio_data, slice_i, completed, outcome, cvars, hist, coord>>

\* The iteration's locals are dead at the top of the loop: the next iteration
\* assigns each of them before it reads it.
DeadLocals ==
  /\ task' = None
  /\ audio_data' = 0
  /\ slice_i' = 0
  /\ completed' = FALSE
  /\ outcome' = "none"

WorkerResetCurrentHalts ==
  /\ wpc = "reset_current"
  /\ current_task' = None
  /\ phase' = [phase EXCEPT ![task] = outcome]
  /\ wpc' = IF outcome = "failed" THEN "exit" ELSE "get"
  /\ DeadLocals
  /\ UNCHANGED <<is_speaking, should_stop, audio_queue, stream, terminated,
                 cvars, notified, at_shutdown, coord>>

\* 225: self.current_task = None, and back to the top of the loop.
WorkerResetCurrent ==
  /\ wpc = "reset_current"
  /\ current_task' = None
  /\ phase' = [phase EXCEPT ![task] = outcome]
  /\ wpc' = "get"
  /\ DeadLocals
  /\ UNCHANGED <<is_speaking, should_stop, audio_queue, stream, terminated,
                 cvars, notified, at_shutdown, coord>>

\* 227-229: except Exception: self.is_speaking = False; current_task is kept.
WorkerExceptHalts ==
  /\ wpc = "except"
  /\ is_speaking' = FALSE
  /\ phase' = [phase EXCEPT ![task] = "failed"]
  /\ wpc' = "exit"
  /\ DeadLocals
  /\ UNCHANGED <<should_stop, audio_queue, current_task, stream, terminated,
                 cvars, notified, at_shutdown, coord>>

WorkerExcept ==
  /\ wpc = "except"
  /\ is_speaking' = FALSE
  /\ phase' = [phase EXCEPT ![task] = "failed"]
  /\ wpc' = "get"
  /\ DeadLocals
  /\ UNCHANGED <<should_stop, audio_queue, current_task, stream, terminated,
                 cvars, notified, at_shutdown, coord>>

\* The worker's steps that invoke no callback.
WorkerSilent ==
  \/ WorkerGet \/ WorkerSetCurrent \/ WorkerSetSpeaking \/ WorkerClearStop
  \/ WorkerGenerate \/ WorkerCheck
  \/ WorkerPlayOpen \/ WorkerPlayCheck \/ WorkerPlayWrite
  \/ WorkerResetSpeaking \/ WorkerResetCurrent \/ WorkerExcept

Worker == WorkerSilent \/ WorkerSpeechStart \/ WorkerSpeechEnd

\* ------------------------------------------------------ caller threads
Idle(c) == cpc[c] = "idle"

\* A call returns to its caller, or goes on in the method that made it.
Return(c) == [cpc EXCEPT ![c] = "idle"]

\* HigherPriority with >= for >.
HigherOrEqualPriority(p, q) == p >= q

\* 96: priority > self.current_task.priority
HigherPriority(p, q) == p > q

\* InterruptGuard sparing a task of the highest priority.
InterruptGuardByPriority ==
  is_speaking /\ (current_task = None \/ priority[current_task] < HighPriority)

\* InterruptGuard with the test of is_speaking left out.
InterruptGuardAlways == TRUE

\* 105: if self.is_speaking
InterruptGuard == is_speaking

\* 79-93: speak(text, task_id, priority, metadata) builds the AudioTask; no
\* argument is validated.
SpeakEnter(c, t, P) ==
  /\ Idle(c)
  /\ calls.speak < MaxTasks
  /\ \E p \in P :
       priority' = [priority EXCEPT ![calls.speak + 1] = p]
  /\ text' = [text EXCEPT ![calls.speak + 1] = t]
  /\ ctask' = [ctask EXCEPT ![c] = calls.speak + 1]
  /\ calls' = [calls EXCEPT !.speak = @ + 1, !.total = @ + 1]
  /\ cop' = [cop EXCEPT ![c] = "speak"]
  /\ cerr' = [cerr EXCEPT ![c] = "none"]
  /\ cseen' = [cseen EXCEPT ![c] = -1]
  /\ cpc' = [cpc EXCEPT ![c] = "sp_is_speaking"]
  /\ UNCHANGED <<shared, wvars, creason, hist>>
  /\ UNCHANGED target

\* speak(t) by a thread of the calls counted against MaxCalls.
Speak(c, t) ==
  /\ calls.total < MaxCalls
  /\ SpeakEnter(c, t, Priorities)
  /\ UNCHANGED coord

\* speak(text) with a text to say.
SpeakCall(c) == Speak(c, SomeText)

\* speak("")
SpeakEmptyCall(c) == Speak(c, EmptyText)

\* 96: if self.is_speaking and ...
SpeakReadSpeaking(c) ==
  /\ cpc[c] = "sp_is_speaking"
  /\ cpc' = [cpc EXCEPT ![c] = IF is_speaking THEN "sp_current" ELSE "sp_put"]
  /\ UNCHANGED <<shared, wvars, cop, ctask, creason, cseen, cerr, calls, priority, text, hist, coord>>
  /\ UNCHANGED target

\* 96: ... and self.current_task and ...
SpeakReadCurrent(c) ==
  /\ cpc[c] = "sp_current"
  /\ cpc' = [cpc EXCEPT ![c] = IF current_task # None THEN "sp_priority" ELSE "sp_put"]
  /\ UNCHANGED <<shared, wvars, cop, ctask, creason, cseen, cerr, calls, priority, text, hist, coord>>
  /\ UNCHANGED target

\* 96-98: ... and priority > self.current_task.priority: a second read of
\* self.current_task, and None has no attribute priority.
SpeakComparePriority(c) ==
  /\ cpc[c] = "sp_priority"
  /\ IF current_task = None
       THEN /\ cerr' = [cerr EXCEPT ![c] = "AttributeError"]
            /\ cop' = [cop EXCEPT ![c] = "none"]
            /\ cpc' = Return(c)
            /\ ctask' = [ctask EXCEPT ![c] = None]
            /\ UNCHANGED <<creason, cseen, target, coord>>
       ELSE /\ cseen' = [cseen EXCEPT ![c] = priority[current_task]]
            /\ IF HigherPriority(priority[ctask[c]], priority[current_task])
                 THEN /\ cpc' = [cpc EXCEPT ![c] = "int_check"]
                      /\ creason' = [creason EXCEPT ![c] = NEW_MESSAGE]
                      /\ target' = [target EXCEPT ![c] = current_task]
                 ELSE /\ cpc' = [cpc EXCEPT ![c] = "sp_put"]
                      /\ creason' = creason
                      /\ target' = target
            /\ UNCHANGED <<cerr, cop, ctask, coord>>
  /\ UNCHANGED <<shared, wvars, calls, priority, text, hist, coord>>

\* 100-101: self.audio_queue.put(task); return task_id
SpeakPut(c) ==
  /\ cpc[c] = "sp_put"
  /\ audio_queue' = Append(audio_queue, ctask[c])
  /\ phase' = [phase EXCEPT ![ctask[c]] = "pending"]
  /\ cop' = [cop EXCEPT ![c] = "none"]
  /\ cpc' = Return(c)
  /\ ctask' = [ctask EXCEPT ![c] = None]
  /\ cseen' = [cseen EXCEPT ![c] = -1]
  /\ creason' = [creason EXCEPT ![c] = MANUAL]
  /\ UNCHANGED <<is_speaking, should_stop, current_task, stream, terminated, wvars,
                 cerr, calls, priority, text, notified, at_shutdown, coord>>
  /\ UNCHANGED target

\* 103: interrupt(reason), called by a client (MANUAL) or by the recorder's
\* on_vad_detect_start callback (VAD_DETECTED, 248-249).
InterruptCall(c) ==
  /\ Idle(c)
  /\ calls.total < MaxCalls
  /\ \E r \in {MANUAL, VAD_DETECTED} : creason' = [creason EXCEPT ![c] = r]
  /\ calls' = [calls EXCEPT !.total = @ + 1]
  /\ cop' = [cop EXCEPT ![c] = "interrupt"]
  /\ cerr' = [cerr EXCEPT ![c] = "none"]
  /\ cpc' = [cpc EXCEPT ![c] = "int_check"]
  /\ UNCHANGED <<shared, wvars, ctask, cseen, priority, text, hist, coord>>
  /\ UNCHANGED target

\* Where a thread goes on after interrupt() returns.
AfterInterrupt(c) ==
  CASE cop[c] = "speak" -> "sp_put"
    [] cop[c] = "shutdown" -> "cq_empty"
    [] OTHER -> "idle"

\* 105: if self.is_speaking
InterruptCheck(c) ==
  /\ cpc[c] = "int_check"
  /\ cpc' = [cpc EXCEPT ![c] = IF InterruptGuard THEN "int_set" ELSE AfterInterrupt(c)]
  /\ cop' = [cop EXCEPT ![c] = IF ~InterruptGuard /\ @ = "interrupt" THEN "none" ELSE @]
  /\ creason' = [creason EXCEPT ![c] = IF InterruptGuard THEN @ ELSE MANUAL]
  /\ target' = [target EXCEPT ![c] = IF ~InterruptGuard THEN None
                                      ELSE IF cop[c] = "speak" THEN @ ELSE task]
  /\ UNCHANGED <<shared, wvars, ctask, cseen, cerr, calls, priority, text, hist, coord>>

\* 107: self.should_stop.set()
InterruptSet(c) ==
  /\ cpc[c] = "int_set"
  /\ should_stop' = TRUE
  /\ cpc' = [cpc EXCEPT ![c] = "int_callback"]
  /\ UNCHANGED <<is_speaking, audio_queue, current_task, stream, terminated, wvars,
                 cop, ctask, creason, cseen, cerr, calls, priority, text, hist, coord>>
  /\ UNCHANGED target

\* 109-110: self.on_speech_interrupted(reason)
InterruptCallback(c) ==
  /\ cpc[c] = "int_callback"
  /\ notified' = [notified EXCEPT ![current_task] =
                     [@ EXCEPT !.interrupted = @ + 1,
                               !.by = @ \cup {Interruption(creason[c], c)}]]
  /\ cpc' = [cpc EXCEPT ![c] = AfterInterrupt(c)]
  /\ cop' = [cop EXCEPT ![c] = IF @ = "interrupt" THEN "none" ELSE @]
  /\ creason' = [creason EXCEPT ![c] = MANUAL]
  /\ target' = [target EXCEPT ![c] = None]
  /\ UNCHANGED <<shared, wvars, ctask, cseen, cerr, calls, priority, text, phase, at_shutdown, coord>>

\* 112: clear_queue()
ClearQueueEnter(c) ==
  /\ Idle(c)
  /\ calls' = [calls EXCEPT !.total = @ + 1]
  /\ cop' = [cop EXCEPT ![c] = "clear_queue"]
  /\ cerr' = [cerr EXCEPT ![c] = "none"]
  /\ cpc' = [cpc EXCEPT ![c] = "cq_empty"]
  /\ UNCHANGED <<shared, wvars, ctask, creason, cseen, priority, text, hist>>
  /\ UNCHANGED target

\* clear_queue() by a thread of the calls counted against MaxCalls.
ClearQueueCall(c) ==
  /\ calls.total < MaxCalls
  /\ ClearQueueEnter(c)
  /\ UNCHANGED coord

\* Where a thread goes on after clear_queue() returns.
AfterClear(c) == IF cop[c] = "shutdown" THEN "sd_put" ELSE "idle"

\* 114: while not self.audio_queue.empty()
ClearQueueEmpty(c) ==
  /\ cpc[c] = "cq_empty"
  /\ cpc' = [cpc EXCEPT ![c] = IF audio_queue = <<>> THEN AfterClear(c) ELSE "cq_get"]
  /\ cop' = [cop EXCEPT ![c] = IF audio_queue = <<>> /\ @ = "clear_queue" THEN "none" ELSE @]
  /\ UNCHANGED <<shared, wvars, ctask, creason, cseen, cerr, calls, priority, text, hist, coord>>
  /\ UNCHANGED target

\* ClearQueueGet stopping the playback as well, as interrupt() does.
ClearQueueGetAndStop(c) ==
  /\ cpc[c] = "cq_get"
  /\ audio_queue # <<>>
  /\ audio_queue' = Tail(audio_queue)
  /\ should_stop' = TRUE
  /\ phase' = IF Head(audio_queue) = None THEN phase
              ELSE [phase EXCEPT ![Head(audio_queue)] = "discarded"]
  /\ cpc' = [cpc EXCEPT ![c] = "cq_empty"]
  /\ UNCHANGED <<is_speaking, current_task, stream, terminated, wvars, cop,
                 ctask, creason, cseen, cerr, calls, priority, text, notified, at_shutdown, coord>>
  /\ UNCHANGED target

\* 115-118: self.audio_queue.get_nowait(); queue.Empty ends the loop.
ClearQueueGet(c) ==
  /\ cpc[c] = "cq_get"
  /\ IF audio_queue = <<>>
       THEN /\ cpc' = [cpc EXCEPT ![c] = AfterClear(c)]
            /\ cop' = [cop EXCEPT ![c] = IF @ = "clear_queue" THEN "none" ELSE @]
            /\ UNCHANGED <<audio_queue, phase, coord>>
       ELSE /\ audio_queue' = Tail(audio_queue)
            /\ phase' = IF Head(audio_queue) = None THEN phase
                        ELSE [phase EXCEPT ![Head(audio_queue)] = "discarded"]
            /\ cpc' = [cpc EXCEPT ![c] = "cq_empty"]
            /\ cop' = cop
  /\ UNCHANGED <<is_speaking, should_stop, current_task, stream, terminated, wvars,
                 ctask, creason, cseen, cerr, calls, priority, text, notified, at_shutdown, coord>>
  /\ UNCHANGED target

\* 120-122: shutdown() starts with self.interrupt(InterruptReason.SHUTDOWN)
ShutdownCall(c) ==
  /\ Idle(c)
  /\ calls.total < MaxCalls
  /\ calls' = [calls EXCEPT !.shutdown = @ + 1, !.total = @ + 1]
  /\ at_shutdown' =
       IF calls.shutdown > 0 THEN at_shutdown
       ELSE [speaks |-> calls.speak]
  /\ cop' = [cop EXCEPT ![c] = "shutdown"]
  /\ creason' = [creason EXCEPT ![c] = SHUTDOWN]
  /\ cerr' = [cerr EXCEPT ![c] = "none"]
  /\ cpc' = [cpc EXCEPT ![c] = "int_check"]
  /\ UNCHANGED <<shared, wvars, ctask, cseen, priority, text, phase, notified, coord>>
  /\ UNCHANGED target

\* ShutdownPut behind a guard that lets only the first shutdown() signal.
ShutdownPutOnce(c) ==
  /\ cpc[c] = "sd_put"
  /\ audio_queue' = IF calls.shutdown = 1 THEN Append(audio_queue, None) ELSE audio_queue
  /\ cpc' = [cpc EXCEPT ![c] = "sd_stream"]
  /\ UNCHANGED <<is_speaking, should_stop, current_task, stream, terminated, wvars,
                 cop, ctask, creason, cseen, cerr, calls, priority, text, hist, coord>>
  /\ UNCHANGED target

\* 126: self.audio_queue.put(None)
ShutdownPut(c) ==
  /\ cpc[c] = "sd_put"
  /\ audio_queue' = Append(audio_queue, None)
  /\ cpc' = [cpc EXCEPT ![c] = "sd_stream"]
  /\ UNCHANGED <<is_speaking, should_stop, current_task, stream, terminated, wvars,
                 cop, ctask, creason, cseen, cerr, calls, priority, text, hist, coord>>
  /\ UNCHANGED target

\* 129-131: if self.stream: stop_stream(); close(). Stopping and closing a
\* stream that is closed already does nothing.
ShutdownCloseStream(c) ==
  /\ cpc[c] = "sd_stream"
  /\ stream' = IF stream = "none" THEN "none" ELSE "closed"
  /\ cpc' = [cpc EXCEPT ![c] = "sd_terminate"]
  /\ UNCHANGED <<is_speaking, should_stop, audio_queue, current_task, terminated,
                 wvars, cop, ctask, creason, cseen, cerr, calls, priority, text, hist, coord>>
  /\ UNCHANGED target

\* 132: self.pyaudio.terminate(), which closes every stream still open.
ShutdownTerminate(c) ==
  /\ cpc[c] = "sd_terminate"
  /\ terminated' = TRUE
  /\ stream' = IF stream = "open" THEN "closed" ELSE stream
  /\ cop' = [cop EXCEPT ![c] = "none"]
  /\ cpc' = Return(c)
  /\ UNCHANGED <<is_speaking, should_stop, audio_queue, current_task, wvars,
                 ctask, creason, cseen, cerr, calls, priority, text, hist, coord>>
  /\ UNCHANGED target

\* speak, interrupt and clear_queue, as the thread that feeds the assistant
\* calls them.
Client(c) ==
  \/ SpeakCall(c) \/ SpeakReadSpeaking(c) \/ SpeakReadCurrent(c)
  \/ SpeakComparePriority(c) \/ SpeakPut(c)
  \/ InterruptCall(c) \/ InterruptCheck(c) \/ InterruptSet(c) \/ InterruptCallback(c)
  \/ ClearQueueCall(c) \/ ClearQueueEmpty(c) \/ ClearQueueGet(c)

\* shutdown, with the interrupt and the clear_queue it calls.
Main(c) ==
  \/ ShutdownCall(c) \/ InterruptCheck(c) \/ InterruptSet(c) \/ InterruptCallback(c)
  \/ ClearQueueEmpty(c) \/ ClearQueueGet(c)
  \/ ShutdownPut(c) \/ ShutdownCloseStream(c) \/ ShutdownTerminate(c)

\* The worker, the feeding thread and the thread that shuts down, interleaved.
Next == Worker \/ Client("client") \/ SpeakEmptyCall("client") \/ Main("main")

Spec == Init /\ [][Next]_vars

\* The wrapper in use and never shut down: the worker and the feeding thread.
NextClient == Worker \/ Client("client")

SpecClient == Init /\ [][NextClient]_vars

\* 79: the feeding thread leaves every speak at its default priority.
NextDefault == Worker \/ (Client("client") /\ priority' = priority)

\* 74-75: the worker is a thread of its own (threading.Thread(target=
\* self._worker_loop)): the scheduler lets it run whenever it can take a step.
SpecDefaultFair == Init /\ [][NextDefault]_vars /\ WF_vars(Worker)

\* Shutdown with no other call in its way: once the first shutdown() has
\* begun the feeding thread makes no further step.
NextShutdown == Worker \/ (calls.shutdown = 0 /\ Client("client")) \/ Main("main")

SpecShutdown == Init /\ [][NextShutdown]_vars

\* ------------------------------------- assistant_server_interruptible.py
\* What recorder.text() returns: nothing, or one of two sentences.
Transcripts == {"", "hello", "what time is it"}

\* The number of the final transcript a thread is working on.
Turn == Len(finals)

\* asyncio.run_coroutine_threadsafe(send_to_clients(json.dumps(m)), main_loop)
ScheduledFirst(type, turn) == <<[type |-> type, turn |-> turn]>> \o loop_queue

Scheduled(type, turn) == Append(loop_queue, [type |-> type, turn |-> turn])

\* 228-229: full_sentence = recorder.text(); if full_sentence. The thread is
\* back here when the speak() of the sentence before has returned or raised.
RecorderText ==
  /\ rpc = "text" \/ (rpc = "in_speak" /\ Idle("client"))
  /\ Len(finals) < MaxFinals
  /\ \E t \in Transcripts :
       /\ full_sentence' = t
       /\ finals' = Append(finals, t)
       /\ rpc' = IF t # "" THEN "send_sentence" ELSE "text"
  /\ UNCHANGED <<shared, wvars, cvars, hist, conversation_history, enh,
                 response, loop_queue, delivered, generated, spoken>>
  /\ UNCHANGED <<is_assistant_speaking, auto, sockets>>

\* 232-244: the fullSentence message; conversation_mode is True throughout.
RecorderSendSentence ==
  /\ rpc = "send_sentence"
  /\ loop_queue' = Scheduled("fullSentence", Turn)
  /\ rpc' = "clear_queue"
  /\ UNCHANGED <<shared, wvars, cvars, hist, conversation_history, enh,
                 full_sentence, response, delivered, finals, generated, spoken>>
  /\ UNCHANGED <<is_assistant_speaking, auto, sockets>>

\* RecorderClearQueue with the call of clear_queue() left out.
RecorderClearQueueSkipped ==
  /\ rpc = "clear_queue"
  /\ rpc' = "in_clear"
  /\ UNCHANGED <<shared, wvars, cvars, hist, conversation_history, enh, full_sentence,
                 response, loop_queue, delivered, finals, generated, spoken>>
  /\ UNCHANGED <<is_assistant_speaking, auto, sockets>>

\* 246: tts_wrapper.clear_queue()
RecorderClearQueue ==
  /\ rpc = "clear_queue"
  /\ ClearQueueEnter("client")
  /\ rpc' = "in_clear"
  /\ UNCHANGED <<conversation_history, enh, full_sentence, response,
                 loop_queue, delivered, finals, generated, spoken>>
  /\ UNCHANGED <<is_assistant_speaking, auto, sockets>>

\* 249-253: the assistant_processing message, once clear_queue() has returned.
RecorderSendProcessing ==
  /\ rpc = "in_clear"
  /\ Idle("client")
  /\ loop_queue' = Scheduled("assistant_processing", Turn)
  /\ rpc' = "generate"
  /\ UNCHANGED <<shared, wvars, cvars, hist, conversation_history, enh,
                 full_sentence, response, delivered, finals, generated, spoken>>
  /\ UNCHANGED <<is_assistant_speaking, auto, sockets>>

\* 256, 60-104: response = asyncio.run(generate_llm_response(full_sentence)).
\* Without an API key it returns a notice (63-65); when the request succeeds
\* it appends the user's and the assistant's entries to the history and
\* returns the reply (93-100); on an exception it returns an apology (102-104).
RecorderGenerate ==
  /\ rpc = "generate"
  /\ \/ /\ response' = "notice"
        /\ generated' = Append(generated, [turn |-> Turn, outcome |-> "no key"])
        /\ conversation_history' = conversation_history
     \/ /\ response' = "reply"
        /\ generated' = Append(generated, [turn |-> Turn, outcome |-> "ok"])
        /\ conversation_history' =
             conversation_history \o
               << [role |-> "user", content |-> full_sentence, turn |-> Turn],
                  [role |-> "assistant", content |-> "reply", turn |-> Turn] >>
     \/ /\ response' = "apology"
        /\ generated' = Append(generated, [turn |-> Turn, outcome |-> "failed"])
        /\ conversation_history' = conversation_history
  /\ rpc' = "send_response"
  /\ UNCHANGED <<shared, wvars, cvars, hist, enh, full_sentence,
                 loop_queue, delivered, finals, spoken>>
  /\ UNCHANGED <<is_assistant_speaking, auto, sockets>>

\* 259-265: the assistant_response message with the text of response.
RecorderSendResponse ==
  /\ rpc = "send_response"
  /\ loop_queue' = Scheduled("assistant_response", Turn)
  /\ rpc' = "speak"
  /\ UNCHANGED <<shared, wvars, cvars, hist, conversation_history, enh,
                 full_sentence, response, delivered, finals, generated, spoken>>
  /\ UNCHANGED <<is_assistant_speaking, auto, sockets>>

\* 270: tts_wrapper.speak(response, priority=1)
RecorderSpeak ==
  /\ rpc = "speak"
  /\ SpeakEnter("client", SomeText, {ResponsePriority})
  /\ spoken' = [spoken EXCEPT ![calls.speak + 1] = Turn]
  /\ rpc' = "in_speak"
  /\ UNCHANGED <<conversation_history, enh, full_sentence, response,
                 loop_queue, delivered, finals, generated>>
  /\ UNCHANGED <<is_assistant_speaking, auto, sockets>>

\* 106-115: on_speech_start sets is_assistant_speaking and schedules the
\* tts_start message.
ServerSpeechStart ==
  SpeechStart(/\ is_assistant_speaking' = TRUE
              /\ loop_queue' = Scheduled("tts_start", spoken[task])
              /\ UNCHANGED <<conversation_history, enh, auto, sockets, rpc,
                             full_sentence, response, delivered, finals,
                             generated, spoken>>)

\* 117-126: on_speech_end resets is_assistant_speaking and schedules the
\* tts_end message.
ServerSpeechEnd ==
  SpeechEnd(/\ is_assistant_speaking' = FALSE
            /\ loop_queue' = Scheduled("tts_end", spoken[task])
            /\ UNCHANGED <<conversation_history, enh, auto, sockets, rpc,
                           full_sentence, response, delivered, finals,
                           generated, spoken>>)

\* 47-57: the loop runs the next send_to_clients: the message goes to every
\* connected client.
LoopSend ==
  /\ loop_queue # <<>>
  /\ delivered' = Append(delivered, Head(loop_queue))
  /\ loop_queue' = Tail(loop_queue)
  /\ UNCHANGED <<shared, wvars, cvars, hist, conversation_history, enh,
                 rpc, full_sentence, response, finals, generated, spoken>>
  /\ UNCHANGED <<is_assistant_speaking, auto, sockets>>

\* The recorder thread inside the wrapper's clear_queue() and speak().
RecorderInWrapper ==
  \/ ClearQueueEmpty("client") \/ ClearQueueGet("client")
  \/ SpeakReadSpeaking("client") \/ SpeakReadCurrent("client")
  \/ SpeakComparePriority("client") \/ SpeakPut("client")

NextInterruptible ==
  \/ RecorderText \/ RecorderSendSentence \/ RecorderClearQueue
  \/ RecorderSendProcessing \/ RecorderGenerate \/ RecorderSendResponse
  \/ RecorderSpeak \/ RecorderInWrapper
  \/ WorkerSilent \/ ServerSpeechStart \/ ServerSpeechEnd
  \/ LoopSend

\* assistant_server_interruptible.py serving its clients: the recorder thread,
\* the wrapper's worker and the event loop.
SpecInterruptible == Init /\ [][NextInterruptible]_vars

\* 228, 256: the user says the same sentence again and again, or nothing, and
\* the generator has a reply for each.
NextAnswering ==
  \/ (RecorderText /\ full_sentence' \in {"", "hello"})
  \/ RecorderSendSentence \/ RecorderClearQueue \/ RecorderSendProcessing
  \/ (RecorderGenerate /\ response' = "reply")
  \/ RecorderSendResponse \/ RecorderSpeak \/ RecorderInWrapper
  \/ WorkerSilent \/ ServerSpeechStart \/ ServerSpeechEnd
  \/ LoopSend

\* assistant_server_interruptible.py answering one utterance after another.
SpecAnswering == Init /\ [][NextAnswering]_vars

\* ------------------------------------------- enhanced_assistant_server.py
\* 284-285: text = self.recorder.text(); if text and text != self.last_transcript
AudioText ==
  /\ rpc = "text"
  /\ Len(finals) < MaxFinals
  /\ \E t \in Transcripts :
       /\ full_sentence' = t
       /\ finals' = Append(finals, t)
       /\ rpc' = IF t # "" /\ t # last_transcript THEN "set_last" ELSE "text"
  /\ UNCHANGED <<shared, wvars, cvars, hist, conversation_history, enh, response,
                 loop_queue, delivered, generated, spoken>>
  /\ UNCHANGED <<is_assistant_speaking, auto, sockets>>

\* 286: self.last_transcript = text
AudioSetLast ==
  /\ rpc = "set_last"
  /\ last_transcript' = full_sentence
  /\ rpc' = "send_user"
  /\ UNCHANGED <<shared, wvars, cvars, hist, detector, cleared, conversation_history, responding,
                 awaiting, tts_stream, full_sentence, response, loop_queue,
                 delivered, finals, generated, spoken>>
  /\ UNCHANGED <<is_assistant_speaking, auto, sockets>>

\* 292-298: the user_message; 301: self.processor and self.llm_client are set.
AudioSendUser ==
  /\ rpc = "send_user"
  /\ loop_queue' = Scheduled("user_message", Turn)
  /\ rpc' = "append_user"
  /\ UNCHANGED <<shared, wvars, cvars, hist, conversation_history, enh,
                 full_sentence, response, delivered, finals, generated, spoken>>
  /\ UNCHANGED <<is_assistant_speaking, auto, sockets>>

\* 303-306: self.conversation_history.append({"role": "user", "content": text})
AudioAppendUser ==
  /\ rpc = "append_user"
  /\ conversation_history' =
       Append(conversation_history,
              [role |-> "user", content |-> full_sentence, turn |-> Turn])
  /\ rpc' = "dispatch"
  /\ UNCHANGED <<shared, wvars, cvars, hist, enh, full_sentence, response,
                 loop_queue, delivered, finals, generated, spoken>>
  /\ UNCHANGED <<is_assistant_speaking, auto, sockets>>

\* 309-310: run_coroutine_threadsafe(self.process_response(text), self.main_loop)
AudioDispatch ==
  /\ rpc = "dispatch"
  /\ loop_queue' = Scheduled("process_response", Turn)
  /\ rpc' = "text"
  /\ UNCHANGED <<shared, wvars, cvars, hist, conversation_history, enh,
                 full_sentence, response, delivered, finals, generated, spoken>>
  /\ UNCHANGED <<is_assistant_speaking, auto, sockets>>

LoopFreeAlways == TRUE

\* The loop is free to run the next coroutine: none runs, process_response
\* gives the loop up only where it awaits its send (331).
LoopFree == responding = 0

\* 267-277: the loop runs a scheduled send_to_clients.
EnhancedLoopSend ==
  /\ LoopFree
  /\ loop_queue # <<>>
  /\ Head(loop_queue).type # "process_response"
  /\ delivered' = Append(delivered, Head(loop_queue))
  /\ loop_queue' = Tail(loop_queue)
  /\ UNCHANGED <<shared, wvars, cvars, hist, conversation_history, enh, rpc,
                 full_sentence, response, finals, generated, spoken>>
  /\ UNCHANGED <<is_assistant_speaking, auto, sockets>>

\* 319-321, 342-343: the loop runs a scheduled process_response: the generator
\* returns the reply, or raises and the handler prints the error.
ProcessResponseGenerate ==
  /\ LoopFree
  /\ loop_queue # <<>>
  /\ Head(loop_queue).type = "process_response"
  /\ loop_queue' = Tail(loop_queue)
  /\ \/ /\ generated' =
             Append(generated, [turn |-> Head(loop_queue).turn, outcome |-> "ok"])
        /\ responding' = Head(loop_queue).turn
        /\ response' = "reply"
     \/ /\ generated' =
             Append(generated, [turn |-> Head(loop_queue).turn, outcome |-> "failed"])
        /\ responding' = 0
        /\ response' = response
  /\ UNCHANGED <<shared, wvars, cvars, hist, detector, cleared, conversation_history, last_transcript,
                 awaiting, tts_stream, rpc, full_sentence, delivered, finals, spoken>>
  /\ UNCHANGED <<is_assistant_speaking, auto, sockets>>

\* 324-335: the assistant's entry, then the assistant_message written to the
\* clients; the coroutine is suspended in that send.
ProcessResponseAppend ==
  /\ responding # 0
  /\ conversation_history' =
       Append(conversation_history,
              [role |-> "assistant", content |-> response, turn |-> responding])
  /\ delivered' = Append(delivered, [type |-> "assistant_message", turn |-> responding])
  /\ awaiting' = awaiting \cup {responding}
  /\ responding' = 0
  /\ response' = ""
  /\ UNCHANGED <<shared, wvars, cvars, hist, detector, cleared, last_transcript, tts_stream, rpc,
                 full_sentence, loop_queue, finals, generated, spoken>>
  /\ UNCHANGED <<is_assistant_speaking, auto, sockets>>

\* 340, 135-140: the send is over; tts_stream.feed(text) and play_async(),
\* which starts a playback unless one is running.
ProcessResponseSpeak ==
  /\ LoopFree
  /\ \E k \in awaiting :
       /\ awaiting' = awaiting \ {k}
       /\ tts_stream' = IF tts_stream.state = "idle"
                          THEN [state |-> "starting", turn |-> k]
                          ELSE tts_stream
  /\ UNCHANGED <<shared, wvars, cvars, hist, detector, cleared, conversation_history, last_transcript,
                 responding, rpc, full_sentence, response, loop_queue, delivered,
                 finals, generated, spoken>>
  /\ UNCHANGED <<is_assistant_speaking, auto, sockets>>

\* 216-224: on_tts_start, called by the playback thread when audio starts.
OnTtsStart ==
  /\ tts_stream.state = "starting"
  /\ tts_stream' = [tts_stream EXCEPT !.state = "playing"]
  /\ loop_queue' = Scheduled("assistant_speaking_start", tts_stream.turn)
  /\ UNCHANGED <<shared, wvars, cvars, hist, detector, cleared, conversation_history, last_transcript,
                 responding, awaiting, rpc, full_sentence, response, delivered,
                 finals, generated, spoken>>
  /\ UNCHANGED <<is_assistant_speaking, auto, sockets>>

\* 226-234: on_tts_stop, called by the playback thread when audio stops.
OnTtsStop ==
  /\ tts_stream.state = "playing"
  /\ tts_stream' = [state |-> "idle", turn |-> 0]
  /\ loop_queue' = Scheduled("assistant_speaking_stop", tts_stream.turn)
  /\ UNCHANGED <<shared, wvars, cvars, hist, detector, cleared, conversation_history, last_transcript,
                 responding, awaiting, rpc, full_sentence, response, delivered,
                 finals, generated, spoken>>
  /\ UNCHANGED <<is_assistant_speaking, auto, sockets>>

\* The turns whose process_response is scheduled and has not run.
Requests ==
  {loop_queue[n].turn : n \in {m \in 1 .. Len(loop_queue) :
                                 loop_queue[m].type = "process_response"}}

ClearHistoryCancels ==
  /\ LoopFree
  /\ conversation_history # <<>>
  /\ conversation_history' = <<>>
  /\ cleared' = cleared \cup Requests
  /\ loop_queue' = SelectSeq(loop_queue, LAMBDA m : m.type # "process_response")
  /\ UNCHANGED <<shared, wvars, cvars, hist, detector, last_transcript, responding, awaiting,
                 tts_stream, rpc, full_sentence, response, delivered, finals,
                 generated, spoken>>
  /\ UNCHANGED <<is_assistant_speaking, auto, sockets>>

\* 388-389: the clear_history control message, handled on the loop. Clearing
\* an empty history changes nothing and is left out.
ClearHistory ==
  /\ LoopFree
  /\ conversation_history # <<>>
  /\ conversation_history' = <<>>
  /\ cleared' = cleared \cup Requests
  /\ UNCHANGED <<shared, wvars, cvars, hist, detector, last_transcript, responding, awaiting,
                 tts_stream, rpc, full_sentence, response, loop_queue, delivered,
                 finals, generated, spoken>>
  /\ UNCHANGED <<is_assistant_speaking, auto, sockets>>

\* ------------------------------ enhanced_assistant_server.py: TurnDetector
\* Times are in tenths of a second.
\* 57: time.time() goes on between two calls.
Tick ==
  /\ now < MaxNow
  /\ now' = now + 1
  /\ answer' = "none"
  /\ UNCHANGED <<last_speech_time, is_user_speaking, conversation_pace,
                 speech_ended, latency>>
  /\ UNCHANGED notdetector

\* 46-49: TurnDetector.on_speech_start
TurnSpeechStart ==
  /\ is_user_speaking' = TRUE
  /\ last_speech_time' = now
  /\ answer' = "none"
  /\ UNCHANGED <<now, conversation_pace, speech_ended, latency>>

\* 51-53: TurnDetector.on_speech_end
TurnSpeechEnd ==
  /\ is_user_speaking
  /\ is_user_speaking' = FALSE
  /\ speech_ended' = now
  /\ answer' = "none"
  /\ UNCHANGED <<now, last_speech_time, conversation_pace, latency>>

\* 60-64: threshold = self.silence_threshold, times 0.7 or 1.3 with the pace:
\* ten times the threshold, which keeps the arithmetic in the integers.
Threshold10(pace) ==
  CASE pace = "fast" -> silence_threshold * 7
    [] pace = "slow" -> silence_threshold * 13
    [] OTHER -> silence_threshold * 10

\* 57, 66: return not self.is_user_speaking and silence_duration > threshold
should_respond ==
  LET silence_duration == now - last_speech_time
  IN  ~is_user_speaking /\ silence_duration * 10 > Threshold10(conversation_pace)

\* 55-66: a call of TurnDetector.should_respond and what it returns.
ShouldRespond ==
  /\ answer = "none"
  /\ answer' = IF should_respond THEN "yes" ELSE "no"
  /\ UNCHANGED <<now, last_speech_time, is_user_speaking, conversation_pace,
                 speech_ended, latency>>
  /\ UNCHANGED notdetector

PaceInclusive(response_time) ==
  IF response_time <= FastBelow THEN "fast"
  ELSE IF response_time >= SlowAbove THEN "slow"
  ELSE "normal"

\* 69-75: the pace that a response time gives.
Pace(response_time) ==
  IF response_time < FastBelow THEN "fast"
  ELSE IF response_time > SlowAbove THEN "slow"
  ELSE "normal"

\* The response times around the two boundaries.
ResponseTimes ==
  {FastBelow - 1, FastBelow, FastBelow + 1, SlowAbove - 1, SlowAbove, SlowAbove + 1}

\* 68-75: TurnDetector.update_pace(response_time)
UpdatePace ==
  /\ \E response_time \in ResponseTimes :
       /\ conversation_pace' = Pace(response_time)
       /\ latency' = response_time
  /\ answer' = "none"
  /\ UNCHANGED <<now, last_speech_time, is_user_speaking, speech_ended>>
  /\ UNCHANGED notdetector

\* 236-243: EnhancedAssistant.on_vad_start. tts_stream.stop() asks the
\* playback to end, which on_tts_stop reports when it has.
OnVadStart ==
  /\ ~is_user_speaking
  /\ TurnSpeechStart
  /\ UNCHANGED notdetector

\* 245-247: EnhancedAssistant.on_vad_stop
OnVadStop ==
  /\ TurnSpeechEnd
  /\ UNCHANGED notdetector

NextTurn == Tick \/ OnVadStart \/ OnVadStop \/ ShouldRespond \/ UpdatePace

\* A TurnDetector and its callers: the recorder's voice-activity callbacks and
\* the calls of should_respond and update_pace, at any time.
SpecTurn == Init /\ [][NextTurn]_vars

NextEnhanced ==
  \/ OnVadStart \/ OnVadStop
  \/ AudioText \/ AudioSetLast \/ AudioSendUser \/ AudioAppendUser \/ AudioDispatch
  \/ EnhancedLoopSend \/ ProcessResponseGenerate \/ ProcessResponseAppend
  \/ ProcessResponseSpeak
  \/ OnTtsStart \/ OnTtsStop \/ ClearHistory

\* enhanced_assistant_server.py serving its clients: the audio thread, the
\* event loop and the playback thread of the TTS stream.
SpecEnhanced == Init /\ [][NextEnhanced]_vars

\* --------------- interruptible_tts_wrapper.py: EnhancedAssistantTTSWrapper
\* Everything but the recorder's voice-activity callback.
notauto ==
  <<shared, wvars, cvars, hist, conversation_history, is_assistant_speaking, enh,
    sockets, rpc, full_sentence, response, loop_queue, delivered, finals, generated, spoken>>

\* 248-252: a call of the function f installed as a callback. The recorder's
\* own callback returns; on_vad_interrupt calls interrupt(VAD_DETECTED) and
\* then whatever self._original_on_vad_start is at that moment. The
\* interpreter raises RecursionError at the call that exceeds its depth.
RECURSIVE Invoke(_, _)
Invoke(f, depth) ==
  IF f = "original"
    THEN [fired |-> TRUE, original |-> 1, interrupts |-> 0, error |-> FALSE]
  ELSE IF depth = 0
    THEN [fired |-> TRUE, original |-> 0, interrupts |-> 0, error |-> TRUE]
  ELSE LET then == Invoke(original_on_vad_start, depth - 1)
       IN  [then EXCEPT !.interrupts = @ + 1]

\* The recorder detects the start of voice activity and calls its callback.
VadStart ==
  /\ vad' = Invoke(on_vad_detect_start, MaxDepth)
  /\ UNCHANGED <<on_vad_detect_start, original_on_vad_start, enables>>
  /\ UNCHANGED notauto

\* 242-254: _setup_vad_callbacks saves the callback the recorder has now and
\* installs a new on_vad_interrupt.
SetupVadCallbacks ==
  /\ original_on_vad_start' = on_vad_detect_start
  /\ on_vad_detect_start' = "on_vad_interrupt"

\* 256-263: enable_auto_interrupt(enabled)
EnableAutoInterrupt ==
  /\ Len(enables) < MaxEnables
  /\ \E enabled \in BOOLEAN :
       /\ enables' = Append(enables, enabled)
       /\ IF enabled
            THEN SetupVadCallbacks
            ELSE /\ on_vad_detect_start' = original_on_vad_start
                 /\ original_on_vad_start' = original_on_vad_start
  /\ vad' = NoEvent
  /\ UNCHANGED notauto

NextAuto == EnableAutoInterrupt \/ VadStart

\* An EnhancedAssistantTTSWrapper made with a recorder that has a callback:
\* enable_auto_interrupt calls and voice-activity-start events in any order.
SpecAuto == Init /\ [][NextAuto]_vars

\* ------------------------- send_to_clients and handle_client (both servers)
\* Everything but the websocket connections.
notsockets ==
  <<shared, wvars, cvars, hist, conversation_history, is_assistant_speaking, enh,
    auto, rpc, full_sentence, response, loop_queue, delivered, finals, generated,
    spoken>>

\* An exception raised in the coroutine named.
Raised(error, by) == [error |-> error, by |-> by]

\* 276-285: a client connects and its handler starts: connected_clients.add,
\* then the handler is suspended in the send of its first message.
HandleClientAdd(w) ==
  /\ hpc[w] = "none"
  /\ connection' = [connection EXCEPT ![w] = "open"]
  /\ connected_clients' = connected_clients \cup {w}
  /\ hpc' = [hpc EXCEPT ![w] = "welcome"]
  /\ UNCHANGED <<bcast, removals, errors>>
  /\ UNCHANGED notsockets

\* 285-295: await websocket.send(...), before the try: the handler goes on to
\* its receive loop, or ConnectionClosed ends it with no removal.
HandleClientWelcome(w) ==
  /\ hpc[w] = "welcome"
  /\ IF connection[w] = "open"
       THEN /\ hpc' = [hpc EXCEPT ![w] = "serving"]
            /\ errors' = errors
       ELSE /\ hpc' = [hpc EXCEPT ![w] = "over"]
            /\ errors' = errors \cup {Raised("ConnectionClosed", "handle_client")}
  /\ UNCHANGED <<connected_clients, connection, bcast, removals>>
  /\ UNCHANGED notsockets

\* The client goes away: the connection is closed from then on.
ClientDisconnects(w) ==
  /\ connection[w] = "open"
  /\ connection' = [connection EXCEPT ![w] = "closed"]
  /\ UNCHANGED <<connected_clients, hpc, bcast, removals, errors>>
  /\ UNCHANGED notsockets

\* 301, 337-341: the receive loop ends on the closed connection and the
\* finally clause runs connected_clients.remove(websocket); set.remove raises
\* KeyError for an element that is not in the set.
HandleClientFinally(w) ==
  /\ hpc[w] = "serving"
  /\ connection[w] = "closed"
  /\ hpc' = [hpc EXCEPT ![w] = "over"]
  /\ IF w \in connected_clients
       THEN /\ connected_clients' = connected_clients \ {w}
            /\ removals' = [removals EXCEPT ![w] = @ + 1]
            /\ errors' = errors
       ELSE /\ errors' = errors \cup {Raised("KeyError", "handle_client")}
            /\ UNCHANGED <<connected_clients, removals>>
  /\ UNCHANGED <<connection, bcast>>
  /\ UNCHANGED notsockets

\* 57-58: for client in disconnected: connected_clients.remove(client). The
\* loop ends at the first client that is not in the set, with KeyError.
RemoveDisconnected(b, disconnected) ==
  /\ bcast' = [bcast EXCEPT ![b] = Over]
  /\ IF disconnected \subseteq connected_clients
       THEN /\ connected_clients' = connected_clients \ disconnected
            /\ removals' = [w \in Websockets |->
                              IF w \in disconnected THEN removals[w] + 1 ELSE removals[w]]
            /\ errors' = errors
       ELSE \E before \in SUBSET (disconnected \cap connected_clients) :
              /\ connected_clients' = connected_clients \ before
              /\ removals' = [w \in Websockets |->
                                IF w \in before THEN removals[w] + 1 ELSE removals[w]]
              /\ errors' = errors \cup {Raised("KeyError", "send_to_clients")}

\* 52-56: the loop over connected_clients goes on, in any order: a send on a
\* closed connection raises ConnectionClosed at once and the client is noted;
\* a send on an open one suspends the coroutine; after the last client the
\* removals follow with no await between.
Iterate(b, todo, disconnected, used) ==
  LET closed == {w \in todo : connection[w] = "closed"}
  IN  \/ /\ \E w \in todo \ closed : \E noted \in SUBSET closed :
              bcast' = [bcast EXCEPT ![b] =
                          [pc |-> "sending", at |-> w, used |-> used,
                           todo |-> todo \ (noted \cup {w}),
                           disconnected |-> disconnected \cup noted]]
         /\ UNCHANGED <<connected_clients, removals, errors>>
      \/ /\ todo = closed
         /\ RemoveDisconnected(b, disconnected \cup closed)

\* 48-58: a send_to_clients coroutine starts: nothing to do with no client.
SendToClients(b) ==
  /\ bcast[b].pc = "new"
  /\ IF connected_clients = {}
       THEN /\ bcast' = [bcast EXCEPT ![b] = Over]
            /\ UNCHANGED <<connected_clients, removals, errors>>
       ELSE Iterate(b, connected_clients, {}, Cardinality(connected_clients))
  /\ UNCHANGED <<connection, hpc>>
  /\ UNCHANGED notsockets

\* 52-56: the coroutine is resumed in its send: ConnectionClosed when the
\* connection was closed meanwhile, and the set iterator raises RuntimeError
\* when the size of connected_clients has changed since the loop began.
SendToClientsResume(b) ==
  /\ bcast[b].pc = "sending"
  /\ LET r == bcast[b]
         disconnected == IF connection[r.at] = "closed"
                           THEN r.disconnected \cup {r.at} ELSE r.disconnected
     IN  IF Cardinality(connected_clients) # r.used
           THEN /\ bcast' = [bcast EXCEPT ![b] = Over]
                /\ errors' = errors \cup {Raised("RuntimeError", "send_to_clients")}
                /\ UNCHANGED <<connected_clients, removals>>
           ELSE Iterate(b, r.todo, disconnected, r.used)
  /\ UNCHANGED <<connection, hpc>>
  /\ UNCHANGED notsockets

NextSockets ==
  \/ \E w \in Websockets :
       \/ HandleClientAdd(w) \/ HandleClientWelcome(w)
       \/ ClientDisconnects(w) \/ HandleClientFinally(w)
  \/ \E b \in Broadcasts : SendToClients(b) \/ SendToClientsResume(b)

\* The event loop of a server: the connection handlers and the broadcasts,
\* each running from one await to the next.
SpecSockets == Init /\ [][NextSockets]_vars

\* ================================================================ claims
Stepped(c) == cpc'[c] # cpc[c]
Ids(q) == {q[k] : k \in 1 .. Len(q)} \ {None}

\* C1: at most one task is in the worker's synthesizing-or-playing section at
\* any instant: a dequeued task reaches its end before the next is dequeued.
C1_AtMostOneInFlight ==
  Cardinality({i \in TaskIds : phase[i] \in InFlight}) <= 1

\* A second task is in flight after the first one reached its end.
C1_Witness ==
  \E i, j \in TaskIds :
    /\ phase[i] \in {"completed", "interrupted", "failed"}
    /\ phase[j] \in InFlight

\* C2: the worker dequeues pending tasks by priority descending, ties in
\* arrival order: no task still pending has a higher priority than the task
\* the worker dequeues.
C2_PriorityOrder ==
  [][(AtGet /\ wpc' = "set_current") =>
       \A k \in 1 .. Len(audio_queue) :
         audio_queue[k] # None => priority[audio_queue[k]] <= priority[task']]_vars

C5_ScenarioA ==
  \A i \in TaskIds : \A r \in notified[i].by :
    (/\ r.reason = NEW_MESSAGE
     /\ r.solo
     /\ priority[i] = LowPriority)
    => /\ notified[i].ended = 0
       /\ priority[r.for] = HighPriority
       /\ \A j \in TaskIds : (i < j /\ j < r.for) => notified[j].started = 0

\* C6: interrupt(VAD_DETECTED) during the playback of a task with nothing
\* pending: on_speech_interrupted(VAD_DETECTED) is fired and the worker goes
\* back to idle without on_speech_end being invoked for that task.
C6_ScenarioB ==
  \A i \in TaskIds : \A r \in notified[i].by :
    (/\ r.reason = VAD_DETECTED
     /\ r.solo)
    => /\ notified[i].ended = 0
       /\ phase[i] \in {"playing", "interrupted", "failed"}
       /\ (AtGet /\ audio_queue = <<>> /\ phase[i] = "interrupted")
            => (~is_speaking /\ current_task = None)

\* Nothing is left for the worker to do: it has left its loop, or it waits on
\* an empty queue.
WorkerSettled == wpc = "exit" \/ (AtGet /\ audio_queue = <<>>)

\* The end state of shutdown(): the worker has left its loop, no task is in
\* flight or pending, the playback device is released, no error was raised.
ShutdownEndState ==
  /\ wpc = "exit"
  /\ ~is_speaking
  /\ \A i \in TaskIds : phase[i] \notin InFlight \cup {"pending"}
  /\ Ids(audio_queue) = {}
  /\ stream # "open"
  /\ terminated
  /\ cerr["main"] = "none"

\* What a shutdown() issued in the end state may not change.
ShutdownEndProjection ==
  <<wpc, is_speaking, should_stop, current_task, Ids(audio_queue), stream,
    terminated, phase, notified, cerr>>

\* C7: shutdown() is idempotent: when the worker has settled after one
\* shutdown() or after two the wrapper is in the same end state (worker out of
\* its loop, nothing in flight or pending, device released, no error), and a
\* further shutdown() that finds nothing speaking in that end state changes
\* nothing of it.
C7_ShutdownIdempotent ==
  /\ [](calls.shutdown >= 1 /\ Idle("main") /\ WorkerSettled => ShutdownEndState)
  /\ [][(ShutdownEndState /\ Stepped("main")
            /\ cpc["main"] \notin {"int_set", "int_callback"})
          => ShutdownEndProjection' = ShutdownEndProjection]_vars

\* Two shutdown() calls have returned; the first stopped a task in flight and
\* closed the stream.
C7_Witness ==
  /\ calls.shutdown = 2
  /\ Idle("main")
  /\ wpc = "exit"
  /\ stream = "closed"
  /\ \E i \in TaskIds : phase[i] = "interrupted"
  /\ \E i \in TaskIds : \E r \in notified[i].by : r.reason = SHUTDOWN

\* C8: once shutdown() has begun no speak() call succeeds: a task whose
\* speak() was issued after shutdown() began is never put in the queue, so it
\* is never pending, dequeued or played.
C8_NoSpeakAfterShutdown ==
  calls.shutdown >= 1 =>
    \A i \in TaskIds : i > at_shutdown.speaks => phase[i] = "absent"

\* C9: after shutdown() the worker loop terminates (in no state reached after
\* a shutdown() call is the worker still in its loop with nothing left that
\* could run), and the task in flight is interrupted: once shutdown() has
\* returned the worker announces neither the start nor the end of a speech.
C9_WorkerTerminates ==
  /\ [](calls.shutdown >= 1 => (wpc = "exit" \/ ENABLED NextShutdown))
  /\ [][terminated =>
          \A i \in TaskIds :
            /\ notified'[i].started = notified[i].started
            /\ notified'[i].ended = notified[i].ended]_vars

\* C10: clear_queue() discards the tasks not yet dequeued and leaves the
\* in-flight task alone: none of its steps changes the stop flag, is_speaking,
\* current_task or the phase of a task in flight, none fires a callback, each
\* only removes from the head of the queue, and it returns on an empty queue.
C10_ClearQueueFrame ==
  [][\A c \in Callers :
       (cop[c] = "clear_queue" /\ Stepped(c)) =>
         /\ should_stop' = should_stop
         /\ is_speaking' = is_speaking
         /\ current_task' = current_task
         /\ notified' = notified
         /\ \A i \in TaskIds : phase[i] \in InFlight => phase'[i] = phase[i]
         /\ audio_queue' \in {audio_queue, SubSeq(audio_queue, 2, Len(audio_queue))}
         /\ Idle(c)' => audio_queue = <<>>]_vars

\* clear_queue() discarded a pending task and the task in flight at that time
\* played to completion.
C10_Witness ==
  /\ \E i, j \in TaskIds : phase[i] = "completed" /\ phase[j] = "discarded"
  /\ \A i \in TaskIds \cup {None} : notified[i].interrupted = 0
  /\ ~should_stop

\* C11: interrupt(reason) is a no-op when no task is in flight: the interrupt
\* that reads is_speaking (105) while no task is between its dequeue and its
\* end returns at once and leaves the stop flag, the pending queue and
\* current_task as they are and fires no callback, so the flag it leaves
\* cannot stop a task dequeued afterwards.
C11_InterruptNoOpWhenIdle ==
  [][\A c \in Callers :
       (/\ cpc[c] = "int_check"
        /\ Stepped(c)
        /\ \A i \in TaskIds : phase[i] \notin InFlight)
       => /\ cpc'[c] \notin {"int_set", "int_callback"}
          /\ should_stop' = should_stop
          /\ audio_queue' = audio_queue
          /\ current_task' = current_task
          /\ notified' = notified]_vars

\* interrupt() is about to read is_speaking with a task pending and none in
\* flight.
C11_Witness ==
  \E c \in Callers :
    /\ cop[c] = "interrupt"
    /\ cpc[c] = "int_check"
    /\ \A i \in TaskIds : phase[i] \notin InFlight
    /\ \E i \in TaskIds : phase[i] = "pending"

\* C12: speak() with empty text is rejected synchronously and its task never
\* enters the pending queue: a task created with empty text is never pending,
\* dequeued or ended, it is not in the queue, and no callback is fired for it.
C12_EmptyTextRejected ==
  \A i \in TaskIds :
    (i <= calls.speak /\ text[i] = EmptyText) =>
      /\ phase[i] = "absent"
      /\ i \notin Ids(audio_queue)
      /\ notified[i] = Silent

\* The final transcripts the thread has finished with.
Handled == {k \in 1 .. Len(finals) : k < Len(finals) \/ rpc \in {"text", "in_speak"}}

\* The generator was invoked for final transcript k.
Dispatched(k) == \E g \in 1 .. Len(generated) : generated[g].turn = k

\* C13: a final transcript is a no-op when it is empty or identical to the
\* final transcript just before it: the generator is dispatched exactly for
\* the transcripts that are non-empty and differ from the one just before,
\* and no user turn is in the history for any other transcript ("hello"
\* twice in a row is one turn).
C13_DuplicateSuppression ==
  \A k \in Handled :
    LET accepted == finals[k] # "" /\ (k = 1 \/ finals[k] # finals[k - 1])
    IN  /\ Dispatched(k) <=> accepted
        /\ (\E h \in 1 .. Len(conversation_history) :
              /\ conversation_history[h].role = "user"
              /\ conversation_history[h].turn = k) => accepted

\* The events of one turn, in the order the clients are to receive them.
EventOrder ==
  <<"user_message", "assistant_message", "assistant_speaking_start",
    "assistant_speaking_stop">>
EventRank(type) == CHOOSE n \in 1 .. Len(EventOrder) : EventOrder[n] = type

GeneratorFailed(k) ==
  \E g \in 1 .. Len(generated) :
    generated[g].turn = k /\ generated[g].outcome = "failed"
\* The types of the messages of turn k handed to the loop so far.
BroadcastOf(k) ==
  {m.type : m \in {x \in {loop_queue[n] : n \in 1 .. Len(loop_queue)}
                          \cup {delivered[n] : n \in 1 .. Len(delivered)} :
                       x.turn = k}}

\* C15: once a final transcript whose generation failed has been handled, an
\* error event for it was broadcast and no speak call was made for it.
C15_GeneratorFailureReported ==
  \A k \in Handled :
    GeneratorFailed(k) =>
      /\ "error" \in BroadcastOf(k)
      /\ \A i \in TaskIds : spoken[i] # k

\* A callback later than on_speech_start was invoked for task i, or a message
\* about the end of its turn's speech was handed to the loop.
Reported(i) ==
  \/ notified[i].ended > 0
  \/ notified[i].interrupted > 0
  \/ BroadcastOf(spoken[i]) \cap {"error", "tts_end", "tts_interrupted"} # {}

\* C16: when the worker is done with a task whose synthesis failed, a callback
\* or a broadcast has reported the failure: the task does not end silently.
C16_SynthesisFailureReported ==
  [][\A i \in TaskIds :
       (task = i /\ wpc = "reset_current" /\ outcome = "failed" /\ wpc' = "get")
         => Reported(i)']_vars

\* C17: on_speech_start has not been invoked for a task whose synthesis
\* failed: the worker holds no failed synthesis of a task it announced.
C17_NoStartOnFailedSynthesis ==
  \A i \in TaskIds :
    (task = i /\ outcome = "failed") => notified[i].started = 0

\* The worker leaves a task that failed: an exception reached the handler of
\* the loop, or the synthesis gave no audio and the iteration ends.
LeavesFailedTask ==
  /\ wpc' # wpc
  /\ \/ wpc = "except"
     \/ wpc = "reset_current" /\ outcome = "failed"

\* C18: a failure while one task is processed does not halt the worker: the
\* worker drops the task and is back at the get() of its loop, which takes the
\* next pending task; only the None of shutdown ends the loop.
C18_FailureDoesNotHaltWorker ==
  [][/\ LeavesFailedTask =>
          /\ wpc' = "get"
          /\ ~is_speaking'
          /\ task \notin Ids(audio_queue')
          /\ task' = None
          /\ (audio_queue' # <<>>) => (ENABLED WorkerGet)'
     /\ (wpc' = "exit" /\ wpc # "exit") =>
          (AtGet /\ audio_queue # <<>> /\ Head(audio_queue) = None)]_vars

C18_Witness ==
  \E i, j \in TaskIds :
    /\ i < j
    /\ phase[i] = "failed"
    /\ notified[i].ended = 0
    /\ phase[j] = "completed"
    /\ notified[j].ended = 1

\* The entries of role r that turn k has in the conversation history.
Entries(r, k) ==
  {h \in 1 .. Len(conversation_history) :
     conversation_history[h].role = r /\ conversation_history[h].turn = k}

\* C19: once a final transcript whose generation failed has been handled, the
\* history holds the user's entry of that turn and no assistant entry, and the
\* generator was called once for it.
C19_FailedTurnKept ==
  \A k \in Handled :
    GeneratorFailed(k) =>
      /\ Entries("user", k) # {}
      /\ Entries("assistant", k) = {}
      /\ Cardinality({g \in 1 .. Len(generated) : generated[g].turn = k}) = 1

\* C20: clear_history empties the history and leaves the dispatched requests
\* alone: each stays scheduled until it runs, and when the reply of a request
\* that was dispatched at a clear arrives it is appended to the history.
C20_ClearKeepsDispatched ==
  [][/\ (conversation_history # <<>> /\ conversation_history' = <<>>) =>
          /\ loop_queue' = loop_queue
          /\ awaiting' = awaiting
          /\ generated' = generated
     /\ \A k \in cleared' :
          \/ k \in Requests'
          \/ \E g \in 1 .. Len(generated') : generated'[g].turn = k
     /\ \A k \in cleared :
          (responding = k /\ responding' # k) =>
            /\ conversation_history' # <<>>
            /\ conversation_history'[Len(conversation_history')] =
                 [role |-> "assistant", content |-> response, turn |-> k]]_vars

C20_Witness ==
  \E k \in cleared :
    /\ Entries("assistant", k) # {}
    /\ Entries("user", k) = {}

\* C21: a task for which on_speech_interrupted was fired before its playback
\* began never begins playback: the interrupt is not lost between the dequeue
\* and the test of the stop flag.
C21_InterruptTakesEffect ==
  [][\A i \in TaskIds :
       (notified[i].interrupted > 0 /\ phase[i] = "synthesizing")
         => phase'[i] # "playing"]_vars

\* The terminal notifications task i has had: on_speech_end and
\* on_speech_interrupted calls.
Terminal(i) == notified[i].ended + notified[i].interrupted

\* C22: a task whose audio was synthesized gets exactly one terminal
\* notification: never two, and by the time a later task is announced the one
\* it has is on_speech_end if it played to the end, on_speech_interrupted if
\* it was stopped.
C22_OneTerminalNotification ==
  \A i \in TaskIds :
    /\ Terminal(i) <= 1
    /\ (/\ phase[i] \in {"completed", "interrupted"}
        /\ \E j \in TaskIds : j > i /\ notified[j].started > 0)
       => /\ Terminal(i) = 1
          /\ notified[i].ended = 1 <=> phase[i] = "completed"

\* The worker is in _play_audio, at the test before a slice or at its write.
InPlayLoop == wpc \in {"play_check", "play_write"}

\* C23: the stop flag is tested before every slice and stays set while the
\* task is played: a flag set during the playback lets at most the slice
\* whose test has passed be written, and the test before the next slice ends
\* the playback with the rest of the audio unwritten.
C23_OneSliceLatency ==
  [][/\ (InPlayLoop /\ should_stop) => should_stop'
     /\ (wpc = "play_check" /\ should_stop) => wpc' # "play_write"
     /\ (wpc = "play_check" /\ should_stop /\ wpc' # wpc /\ slice_i < audio_data)
          => (wpc' = "reset_speaking" /\ slice_i' = slice_i)]_vars

C23_Witness ==
  /\ wpc = "reset_speaking"
  /\ outcome = "interrupted"
  /\ should_stop
  /\ 0 < slice_i
  /\ slice_i < audio_data

\* The worker is done with task i, or clear_queue removed it.
Finished(i) == phase[i] \in {"completed", "interrupted", "failed", "discarded"}

\* C24: with the worker scheduled fairly and no shutdown, every task put in
\* the queue is dequeued and brought to its end unless clear_queue removes it,
\* and a task that plays ends with on_speech_end unless it is interrupted or
\* its playback fails.
C24_PendingIsProcessed ==
  \A i \in TaskIds :
    /\ (phase[i] = "pending") ~> Finished(i)
    /\ (phase[i] = "playing")
         ~> (notified[i].ended > 0 \/ phase[i] \in {"interrupted", "failed"})

C24_Witness ==
  /\ AtGet
  /\ audio_queue = <<>>
  /\ \A i \in TaskIds : phase[i] = "completed" /\ notified[i].ended = 1

\* C25: the worker has left its loop only if shutdown() was called: a failed
\* synthesis, a failed playback or an exception in the loop does not end it.
C25_ExitOnlyByShutdown ==
  wpc = "exit" => calls.shutdown >= 1

C25_Witness ==
  /\ wpc = "exit"
  /\ calls.shutdown >= 1
  /\ \E i \in TaskIds : phase[i] = "failed"

\* C26: while the user is not speaking, the time the TurnDetector measures
\* the silence from is the time the user stopped speaking: on_speech_end
\* updates it.
C26_SilenceSinceSpeechEnd ==
  ~is_user_speaking => last_speech_time = speech_ended

\* Ten times the pace multiplier: fast 0.7, slow 1.3, normal 1.0.
Multiplier10(pace) ==
  IF pace = "fast" THEN 7 ELSE IF pace = "slow" THEN 13 ELSE 10

\* C27: a call of should_respond returns true exactly when the user is not
\* speaking and the time since the user stopped speaking is strictly greater
\* than the base threshold times the pace multiplier, and it changes no field
\* of the TurnDetector.
C27_ShouldRespondExact ==
  [][(answer = "none" /\ answer' # "none") =>
       /\ answer' = "yes" <=>
            /\ ~is_user_speaking
            /\ (now - speech_ended) * 10
                 > silence_threshold * Multiplier10(conversation_pace)
       /\ UNCHANGED <<last_speech_time, is_user_speaking, conversation_pace>>]_vars

\* C28: after update_pace the pace is fast for a response time below 0.5 s,
\* slow above 1.5 s and normal from 0.5 s to 1.5 s, both included, whatever
\* the pace was before.
C28_PaceFromLatency ==
  latency >= 0 =>
    /\ latency < FastBelow => conversation_pace = "fast"
    /\ latency > SlowAbove => conversation_pace = "slow"
    /\ (FastBelow <= latency /\ latency <= SlowAbove) => conversation_pace = "normal"

C28_Witness ==
  /\ latency = SlowAbove
  /\ conversation_pace = "normal"
  /\ answer = "yes"

\* C29: once process_response has had a reply from the generator and gone on,
\* update_pace has been called with the turn's response time.
C29_LatencyRecorded ==
  (\E g \in 1 .. Len(generated) :
     generated[g].outcome = "ok" /\ responding # generated[g].turn)
    => latency >= 0

\* The final transcript of turn k was accepted: its user_message was handed
\* to the loop.
Accepted(k) == "user_message" \in BroadcastOf(k)

\* Nothing is left to do for the transcripts received so far.
Quiescent == rpc = "text" /\ loop_queue = <<>> /\ responding = 0

\* C30: a call of the generator starts only when none is in flight, the calls
\* are made in the order the transcripts arrived, none is made before the
\* accepted transcripts before it had theirs, and once nothing is left to do
\* every accepted transcript had its call.
C30_OneRequestInOrder ==
  [][/\ Len(generated') > Len(generated) =>
          LET k == generated'[Len(generated')].turn
          IN  /\ responding = 0
              /\ \A g \in 1 .. Len(generated) : generated[g].turn < k
              /\ \A j \in 1 .. (k - 1) : Accepted(j) => Dispatched(j)
     /\ (Quiescent => \A k \in 1 .. Len(finals) : Accepted(k) => Dispatched(k))'
    ]_vars

C30_Witness ==
  /\ responding # 0
  /\ Requests # {}
  /\ \A k \in Requests : responding < k

\* C31: the conversation history is ordered by turn: no entry of a later turn
\* is before an entry of an earlier turn, and the assistant's reply of a turn
\* follows the user's utterance of that turn, also when a second final
\* transcript arrives while the first is being answered.
C31_HistoryOrderedByTurn ==
  \A i, j \in 1 .. Len(conversation_history) :
    i < j =>
      /\ conversation_history[i].turn <= conversation_history[j].turn
      /\ conversation_history[i].turn = conversation_history[j].turn
           => (/\ conversation_history[i].role = "user"
               /\ conversation_history[j].role = "assistant")

\* The worker's task has a test of the stop flag ahead of it: in
\* _generate_audio (146), at 216 or before a slice that is still to be written.
FlagTestAhead ==
  \/ wpc \in {"speech_start", "generate", "check", "play_open"}
  \/ wpc = "play_check" /\ slice_i < audio_data
  \/ wpc = "play_write" /\ slice_i + 1 < audio_data

\* C32: an interrupt decided against the task in flight never stops another
\* task: when it sets the stop flag, the task that will test the flag is the
\* task that was in flight when the interrupt was decided, and its
\* on_speech_interrupted is not fired while another task is the current one.
C32_InterruptHitsItsTarget ==
  [][\A c \in Callers :
       /\ (cpc[c] = "int_set" /\ Stepped(c) /\ FlagTestAhead) => task = target[c]
       /\ (cpc[c] = "int_callback" /\ Stepped(c))
            => current_task \in {None, target[c]}]_vars

\* C33: clear_queue() removes speech tasks only: none of its get_nowait()
\* calls takes the None that shutdown() put, so once shutdown() has returned
\* and no call is running the worker is not blocked on an empty queue.
C33_ClearKeepsSentinel ==
  /\ [][\A c \in Callers :
          (cop[c] = "clear_queue" /\ cpc[c] = "cq_get" /\ Stepped(c)
             /\ audio_queue # <<>>) => Head(audio_queue) # None]_vars
  /\ []((calls.shutdown >= 1 /\ \A c \in Callers : Idle(c))
          => ~(AtGet /\ audio_queue = <<>>))

\* C34: the worker never uses the playback device after shutdown() released
\* it: every stream.write of a slice finds the stream open, and no stream is
\* opened on the terminated PyAudio instance.
C34_NoUseAfterRelease ==
  [][/\ (wpc = "play_write" /\ wpc' # wpc) => stream = "open"
     /\ (wpc = "play_open" /\ wpc' # wpc /\ stream = "none") => ~terminated]_vars

\* C35: speak() raises nothing when the worker ends the task in flight while
\* speak reads is_speaking and current_task, and every speak() that has
\* returned has put its task in the queue.
C35_SpeakNeverRaises ==
  /\ \A c \in Callers : cerr[c] = "none"
  /\ \A i \in TaskIds :
       (i <= calls.speak /\ \A c \in Callers : ctask[c] # i) => phase[i] # "absent"

\* The number of messages of one of the types handed to the loop so far.
Handed(types) ==
  Cardinality({n \in 1 .. Len(loop_queue) : loop_queue[n].type \in types})
    + Cardinality({n \in 1 .. Len(delivered) : delivered[n].type \in types})

\* C36: is_assistant_speaking is true only while the wrapper has a task in
\* flight, and when the worker is idle again every tts_start has had its
\* tts_end or tts_interrupted, however the task ended.
C36_SpeakingFlagFollowsWrapper ==
  /\ is_assistant_speaking => \E i \in TaskIds : phase[i] \in InFlight
  /\ AtGet => Handed({"tts_start"}) = Handed({"tts_end", "tts_interrupted"})

\* Auto-interrupt is enabled: by the constructor, or by the last call.
AutoEnabled == enables = <<>> \/ enables[Len(enables)]

\* C37: after any sequence of enable_auto_interrupt calls a
\* voice-activity-start event invokes the recorder's original callback once
\* and interrupt(VAD_DETECTED) once when auto-interrupt is enabled, never when
\* it is disabled, and raises nothing; disabling restores the original
\* callback.
C37_AutoInterruptToggle ==
  /\ vad.fired =>
       /\ vad.original = 1
       /\ vad.interrupts = IF AutoEnabled THEN 1 ELSE 0
       /\ ~vad.error
  /\ ~AutoEnabled => on_vad_detect_start = "original"

\* The tasks that speak a response of the recorder thread and are in the queue.
PendingResponses == {i \in Ids(audio_queue) : spoken[i] # 0}

\* C38: in the interruptible server at most one response is pending at any
\* time: the recorder thread clears the queue before it generates, so when it
\* puts the response to an utterance no response to an earlier one is queued.
C38_OnePendingResponse ==
  /\ [](Cardinality(PendingResponses) <= 1)
  /\ [][(cpc["client"] = "sp_put" /\ Stepped("client")) =>
          /\ PendingResponses = {}
          /\ PendingResponses' = {ctask["client"]}]_vars

\* The response to the first utterance was still pending when the second
\* utterance came: it was discarded and the second response is pending.
C38_Witness ==
  \E i, j \in TaskIds :
    /\ spoken[i] # 0
    /\ spoken[i] < spoken[j]
    /\ phase[i] = "discarded"
    /\ PendingResponses = {j}

\* C39: each client is removed from connected_clients at most once and no
\* removal targets a client that is not in the set: neither the handler's
\* finally clause nor a broadcast fails with KeyError.
C39_RemovedOnce ==
  /\ \A w \in Websockets : removals[w] <= 1
  /\ \A e \in errors : e.error # "KeyError"
====
